---- MODULE Spec2Model ----
(***************************************************************************)
(* A model of pckgi's src/index.js: HttpClient (timeout, retry, backoff),  *)
(* ResultCache (TTL memoization) and the NPMScanner facade that uses both. *)
(* Time is the millisecond clock read by Date.now() and by the timers.     *)
(***************************************************************************)
EXTENDS Integers, Sequences, FiniteSets, TLC

VARIABLES
    now,        \* the clock, in ms (Date.now(), and the timers' time base)
    timeout,    \* HttpClient.timeout
    retries,    \* HttpClient.retries
    calls,      \* the activations of HttpClient.get, in the order they started
    ttl,        \* ResultCache.ttl
    cache,      \* ResultCache.cache: key -> item
    lastOp,     \* the last ResultCache operation and what it returned
    sets,       \* per key, the set() calls since the last clear()
    ops,        \* the calls of NPMScanner.search and .scan, in the order they started
    okAt,       \* per key, when a search or scan with that key last returned
    cleared,    \* clearCache() was called since the last search or scan started
    cmp,        \* the call of NPMScanner.compare, if one was made
    util        \* the call of a function of utils: its arguments and what it returned

vars == <<now, timeout, retries, calls, ttl, cache, lastOp, sets, ops, okAt, cleared, cmp, util>>

(***************************************************************************)
(* Bounds of the model.                                                    *)
(***************************************************************************)
MaxTicks == 8       \* the clock stops after MaxTicks ticks
MaxRetries == 2     \* the largest retries argument tried
MaxCacheTicks == 3  \* the clock of SpecCache stops after MaxCacheTicks ticks
MaxScanTicks == 2   \* the clock of SpecScanner stops after MaxScanTicks ticks
MaxOps == 3         \* the number of search and scan calls made
MaxDays == 1100     \* the largest daysSinceUpdate calculateHealth is called with
MaxVersionLen == 6  \* parseVersion is called with strings as long, and 1.1.1 and as many more

(***************************************************************************)
(* Program constants.                                                      *)
(***************************************************************************)
DefaultTimeout == 5000
DefaultRetries == 2
BackoffBaseMs == 100

\* The clock advances in steps of half the backoff base.
TickMs == BackoffBaseMs \div 2

Undefined == "undefined"

\* An argument is <<v>>, or <<>> when it is left out; a default parameter value
\* applies when the argument is undefined.
Default(arg, dflt) == IF arg = <<>> THEN dflt ELSE arg[1]

TimeoutArgs == {<<>>, <<TickMs>>, <<3 * TickMs>>}
RetriesArgs == {<<>>} \cup {<<r>> : r \in -1 .. MaxRetries}

(***************************************************************************)
(* Errors and responses.                                                   *)
(***************************************************************************)
\* An error has a name and a message; a message is the sequence of its parts.
Err(name, message) == [name |-> name, message |-> message]

NoError == Err(Undefined, <<>>)

\* fetch rejects with a TypeError on a network failure
NetworkError == Err("TypeError", <<"fetch failed">>)

\* fetch and response.json() reject with an AbortError once the signal is aborted
AbortError == Err("AbortError", <<"This operation was aborted">>)

\* response.json() rejects with a SyntaxError on a malformed body
SyntaxError == Err("SyntaxError", <<"Unexpected token">>)

\* new Error(`HTTP ${response.status}: ${response.statusText}`)
HttpError(status, statusText) ==
    Err("Error", <<"HTTP ", ToString(status), ": ", statusText>>)

Statuses == {200, 201, 404, 500}

StatusText(s) ==
    CASE s = 200 -> "OK"
      [] s = 201 -> "Created"
      [] s = 404 -> "Not Found"
      [] s = 500 -> "Internal Server Error"
      [] OTHER -> ""

\* Response.ok
Ok(status) == status >= 200 /\ status <= 299

NoResult == [data |-> Undefined, status |-> 0]

\* The URL of a request: the endpoint and the query or package name in it.
Url(endpoint, arg) == <<endpoint, arg>>

(***************************************************************************)
(* HttpClient.get                                                          *)
(***************************************************************************)
\* 2^n
RECURSIVE Pow2(_)
Pow2(n) == IF n <= 0 THEN 1 ELSE 2 * Pow2(n - 1)

\* Mutant: the exponent is off by one.
BackoffMs_Doubled(attempt) == Pow2(attempt + 1) * BackoffBaseMs

\* Math.pow(2, attempt) * 100
BackoffMs(attempt) == Pow2(attempt) * BackoffBaseMs

\* Mutant: an abort is retried like any other error.
ShouldBreak_NoAbortCheck(attempt, error) == attempt = retries

\* attempt === this.retries || error.name === 'AbortError'
ShouldBreak(attempt, error) == attempt = retries \/ error.name = "AbortError"

\* Mutant: lastError = lastError || error keeps the first error.
CaughtError_KeepFirst(lastError, error) ==
    IF lastError = NoError THEN error ELSE lastError

\* lastError = error
CaughtError(lastError, error) == error

\* One log entry per attempt: when fetch was called, when the attempt ended and how.
Pending == Err("pending", <<>>)
Succeeded == Err("ok", <<>>)
Attempt(start) ==
    [start |-> start, end |-> start, outcome |-> Pending, status |-> 0, data |-> Undefined]

NewCall(url) ==
    [ url        |-> url,
      pc         |-> "fetch",
      attempt    |-> 0,
      timerArmed |-> TRUE,
      timerDue   |-> now + timeout,
      aborted    |-> FALSE,
      status     |-> 0,
      lastError  |-> NoError,
      result     |-> NoResult,
      backoffDue |-> 0,
      doneAt     |-> 0,
      log        |-> <<Attempt(now)>> ]

EndAttempt(log, outcome) ==
    [log EXCEPT ![Len(log)] = [@ EXCEPT !.end = now, !.outcome = outcome]]

\* throw lastError, after the loop
Throw(c) == [c EXCEPT !.pc = "thrown", !.doneAt = now]

\* for (let attempt = 0; attempt <= this.retries; ...): the call up to its first await
StartCall(url) ==
    LET c == NewCall(url) IN
    IF 0 <= retries THEN c
    ELSE Throw([c EXCEPT !.log = <<>>])

\* Mutant: the timer is cleared before the backoff wait.
Catch_ClearsFirst(c, error) ==
    LET d == [c EXCEPT !.lastError = CaughtError(c.lastError, error),
                       !.log = EndAttempt(c.log, error),
                       !.timerArmed = FALSE] IN
    IF ShouldBreak(c.attempt, error)
    THEN Throw(d)
    ELSE [d EXCEPT !.pc = "backoff", !.backoffDue = now + BackoffMs(c.attempt)]

\* Mutant: the timer is left armed when the loop is left by break.
Catch_LeavesTimer(c, error) ==
    LET d == [c EXCEPT !.lastError = CaughtError(c.lastError, error),
                       !.log = EndAttempt(c.log, error)] IN
    IF ShouldBreak(c.attempt, error)
    THEN Throw(d)
    ELSE [d EXCEPT !.pc = "backoff", !.backoffDue = now + BackoffMs(c.attempt)]

\* catch (error) { ... } finally { clearTimeout(timeoutId) }
Catch(c, error) ==
    LET d == [c EXCEPT !.lastError = CaughtError(c.lastError, error),
                       !.log = EndAttempt(c.log, error)] IN
    IF ShouldBreak(c.attempt, error)
    THEN Throw([d EXCEPT !.timerArmed = FALSE])
    ELSE [d EXCEPT !.pc = "backoff", !.backoffDue = now + BackoffMs(c.attempt)]

\* Mutant: the loop does not count its attempts.
Retry_NoIncrement(c) ==
    [c EXCEPT !.timerArmed = FALSE, !.pc = "fetch", !.log = Append(c.log, Attempt(now))]

\* finally { clearTimeout(timeoutId) } after the backoff, attempt++, the next fetch
Retry(c) ==
    LET d == [c EXCEPT !.timerArmed = FALSE, !.attempt = c.attempt + 1] IN
    IF d.attempt <= retries
    THEN [d EXCEPT !.pc = "fetch", !.log = Append(c.log, Attempt(now))]
    ELSE Throw(d)

\* Mutant: the status returned is always 200.
Return_Status200(c, data) ==
    [c EXCEPT !.pc = "returned",
              !.result = [data |-> data, status |-> 200],
              !.timerArmed = FALSE,
              !.doneAt = now,
              !.log = EndAttempt(c.log, Succeeded)]

\* return { data, status: response.status }; finally { clearTimeout(timeoutId) }
Return(c, data) ==
    [c EXCEPT !.pc = "returned",
              !.result = [data |-> data, status |-> c.status],
              !.timerArmed = FALSE,
              !.doneAt = now,
              !.log = EndAttempt(c.log, Succeeded)]

\* Mutant: response.ok is not checked.
OnResponse_NoCheck(c, status) == [c EXCEPT !.pc = "json", !.status = status]

\* const response = await fetch(...); if (!response.ok) throw new Error(...)
OnResponse(c, status) ==
    IF ~Ok(status)
    THEN Catch(c, HttpError(status, StatusText(status)))
    ELSE [c EXCEPT !.pc = "json", !.status = status]

\* What the server sent in answer to the attempt under way.
Sent(c, field, value) ==
    [c EXCEPT !.log = [@ EXCEPT ![Len(@)] = [@ EXCEPT ![field] = value]]]

(***************************************************************************)
(* ResultCache                                                             *)
(***************************************************************************)
DefaultTtl == 300000

\* return null
Null == [kind |-> "null"]

\* The Map of a new cache, and of a cleared one
EmptyMap == [k \in {} |-> Null]

\* Mutant: an entry aged exactly ttl counts as expired.
Expired_AtTtl(item) == now - item.timestamp >= ttl

\* Date.now() - item.timestamp > this.ttl
Expired(item) == now - item.timestamp > ttl

\* Mutant: a read restarts the lifetime of the entry.
CacheGet_Touch(map, key) ==
    IF key \notin DOMAIN map
    THEN [value |-> Null, map |-> map]
    ELSE IF Expired(map[key])
         THEN [value |-> Null, map |-> [k \in DOMAIN map \ {key} |-> map[k]]]
         ELSE [value |-> map[key].data,
               map |-> [map EXCEPT ![key] = [@ EXCEPT !.timestamp = now]]]

\* ResultCache.get: what it returns and the Map it leaves
CacheGet(map, key) ==
    IF key \notin DOMAIN map
    THEN [value |-> Null, map |-> map]
    ELSE IF Expired(map[key])
         THEN [value |-> Null, map |-> [k \in DOMAIN map \ {key} |-> map[k]]]
         ELSE [value |-> map[key].data, map |-> map]

\* Mutant: overwriting an entry keeps its timestamp.
CacheSet_KeepTimestamp(map, key, data) ==
    [k \in DOMAIN map \cup {key} |->
        IF k = key
        THEN [data |-> data,
              timestamp |-> IF key \in DOMAIN map THEN map[key].timestamp ELSE now]
        ELSE map[k]]

\* ResultCache.set
CacheSet(map, key, data) ==
    [k \in DOMAIN map \cup {key} |->
        IF k = key THEN [data |-> data, timestamp |-> now] ELSE map[k]]

\* Mutant: clear() leaves the entries in place.
CacheClear_Keep(map) == map

\* ResultCache.clear
CacheClear(map) == EmptyMap

NoOp == [op |-> "none", key |-> <<>>, result |-> Null, at |-> 0]

\* The last two set() calls of a key since the last clear(), oldest first; each
\* with the time of the call and whether it found an entry to overwrite.
Remember(history, data, existed) ==
    LET e == [data |-> data, at |-> now, existed |-> existed] IN
    IF history = <<>> THEN <<e>> ELSE <<history[Len(history)], e>>

(***************************************************************************)
(* utils                                                                   *)
(***************************************************************************)
\* A string is the sequence of its characters.
Digits == <<"0", "1", "2", "3", "4", "5", "6", "7", "8", "9">>
Letters == {"a", "b", "c", "x"}

IsDigit(ch) == \E i \in 1 .. Len(Digits) : Digits[i] = ch
IsIdChar(ch) == IsDigit(ch) \/ ch \in Letters \/ ch = "-"

\* The length of the longest run of digits of v that starts at position i: (\d+)
RECURSIVE DigitRun(_, _)
DigitRun(v, i) ==
    IF i <= Len(v) /\ IsDigit(v[i]) THEN 1 + DigitRun(v, i + 1) ELSE 0

\* parseInt of a run of digits
RECURSIVE ParseInt(_)
ParseInt(ds) ==
    IF ds = <<>> THEN 0
    ELSE 10 * ParseInt(SubSeq(ds, 1, Len(ds) - 1))
         + (CHOOSE i \in 1 .. Len(Digits) : Digits[i] = ds[Len(ds)]) - 1

\* [a-zA-Z0-9-]+(?:\.[a-zA-Z0-9-]+)*
ValidIds(s) ==
    /\ s # <<>>
    /\ \A i \in 1 .. Len(s) : IsIdChar(s[i]) \/ s[i] = "."
    /\ s[1] # "."
    /\ s[Len(s)] # "."
    /\ \A i \in 1 .. Len(s) - 1 : ~(s[i] = "." /\ s[i + 1] = ".")

\* The first position of ch in s, or 0
IndexOf(s, ch) ==
    IF \E i \in 1 .. Len(s) : s[i] = ch
    THEN CHOOSE i \in 1 .. Len(s) : s[i] = ch /\ \A j \in 1 .. i - 1 : s[j] # ch
    ELSE 0

\* return null
NoVersion == [parsed |-> FALSE]

\* Mutant: build metadata makes a version unstable.
ParseVersion_BuildUnstable(v) ==
    LET n1 == DigitRun(v, 1)
        d1 == n1 + 1
        n2 == DigitRun(v, d1 + 1)
        d2 == d1 + n2 + 1
        n3 == DigitRun(v, d2 + 1)
        e == d2 + n3
        rest == SubSeq(v, e + 1, Len(v))
        plus == IndexOf(rest, "+")
        hasPre == rest # <<>> /\ rest[1] = "-"
        pre == IF hasPre
               THEN SubSeq(rest, 2, IF plus = 0 THEN Len(rest) ELSE plus - 1)
               ELSE <<>>
        afterPre == IF hasPre THEN SubSeq(rest, 2 + Len(pre), Len(rest)) ELSE rest
        hasBuild == afterPre # <<>> /\ afterPre[1] = "+"
        build == IF hasBuild THEN SubSeq(afterPre, 2, Len(afterPre)) ELSE <<>>
        matches ==
            /\ n1 > 0 /\ d1 <= Len(v) /\ v[d1] = "."
            /\ n2 > 0 /\ d2 <= Len(v) /\ v[d2] = "."
            /\ n3 > 0
            /\ hasPre => ValidIds(pre)
            /\ afterPre = <<>> \/ hasBuild
            /\ hasBuild => ValidIds(build)
    IN  IF matches
        THEN [ parsed     |-> TRUE,
               major      |-> ParseInt(SubSeq(v, 1, n1)),
               minor      |-> ParseInt(SubSeq(v, d1 + 1, d1 + n2)),
               patch      |-> ParseInt(SubSeq(v, d2 + 1, e)),
               prerelease |-> pre,
               build      |-> build,
               isStable   |-> ~hasPre /\ ~hasBuild ]
        ELSE NoVersion

\* utils.parseVersion
ParseVersion(v) ==
    LET n1 == DigitRun(v, 1)
        d1 == n1 + 1
        n2 == DigitRun(v, d1 + 1)
        d2 == d1 + n2 + 1
        n3 == DigitRun(v, d2 + 1)
        e == d2 + n3
        rest == SubSeq(v, e + 1, Len(v))
        plus == IndexOf(rest, "+")
        hasPre == rest # <<>> /\ rest[1] = "-"
        pre == IF hasPre
               THEN SubSeq(rest, 2, IF plus = 0 THEN Len(rest) ELSE plus - 1)
               ELSE <<>>
        afterPre == IF hasPre THEN SubSeq(rest, 2 + Len(pre), Len(rest)) ELSE rest
        hasBuild == afterPre # <<>> /\ afterPre[1] = "+"
        build == IF hasBuild THEN SubSeq(afterPre, 2, Len(afterPre)) ELSE <<>>
        matches ==
            /\ n1 > 0 /\ d1 <= Len(v) /\ v[d1] = "."
            /\ n2 > 0 /\ d2 <= Len(v) /\ v[d2] = "."
            /\ n3 > 0
            /\ hasPre => ValidIds(pre)
            /\ afterPre = <<>> \/ hasBuild
            /\ hasBuild => ValidIds(build)
    IN  IF matches
        THEN [ parsed     |-> TRUE,
               major      |-> ParseInt(SubSeq(v, 1, n1)),
               minor      |-> ParseInt(SubSeq(v, d1 + 1, d1 + n2)),
               patch      |-> ParseInt(SubSeq(v, d2 + 1, e)),
               prerelease |-> pre,
               build      |-> build,
               isStable   |-> ~hasPre ]
        ELSE NoVersion

\* Mutant: no penalty beyond that of two years.
CalculateHealth_NoOldest(daysSinceUpdate, downloads, isDeprecated, hasVulnerabilities) ==
    LET agePenalty ==
            IF daysSinceUpdate > 730 THEN 40
            ELSE IF daysSinceUpdate > 365 THEN 20
            ELSE 0
        downloadPenalty ==
            IF downloads < 10 THEN 30
            ELSE IF downloads < 100 THEN 15
            ELSE IF downloads < 1000 THEN 5
            ELSE 0
        score == 100 - agePenalty - downloadPenalty
    IN  IF isDeprecated THEN [status |-> "deprecated", score |-> 0]
        ELSE IF hasVulnerabilities THEN [status |-> "vulnerable", score |-> 20]
        ELSE IF score >= 80 THEN [status |-> "excellent", score |-> score]
        ELSE IF score >= 60 THEN [status |-> "good", score |-> score]
        ELSE IF score >= 40 THEN [status |-> "fair", score |-> score]
        ELSE IF score >= 20 THEN [status |-> "poor", score |-> score]
        ELSE [status |-> "critical", score |-> score]

\* Mutant: the vulnerability is looked at before the deprecation.
CalculateHealth_VulnerableFirst(daysSinceUpdate, downloads, isDeprecated, hasVulnerabilities) ==
    IF hasVulnerabilities THEN [status |-> "vulnerable", score |-> 20]
    ELSE IF isDeprecated THEN [status |-> "deprecated", score |-> 0]
    ELSE [status |-> "excellent", score |-> 100]

\* Mutant: the penalties of age add up.
CalculateHealth_Cumulative(daysSinceUpdate, downloads, isDeprecated, hasVulnerabilities) ==
    LET agePenalty ==
            (IF daysSinceUpdate > 1095 THEN 60 ELSE 0)
                + (IF daysSinceUpdate > 730 THEN 40 ELSE 0)
                + (IF daysSinceUpdate > 365 THEN 20 ELSE 0)
        downloadPenalty ==
            IF downloads < 10 THEN 30
            ELSE IF downloads < 100 THEN 15
            ELSE IF downloads < 1000 THEN 5
            ELSE 0
        score == 100 - agePenalty - downloadPenalty
    IN  IF isDeprecated THEN [status |-> "deprecated", score |-> 0]
        ELSE IF hasVulnerabilities THEN [status |-> "vulnerable", score |-> 20]
        ELSE IF score >= 80 THEN [status |-> "excellent", score |-> score]
        ELSE IF score >= 60 THEN [status |-> "good", score |-> score]
        ELSE IF score >= 40 THEN [status |-> "fair", score |-> score]
        ELSE IF score >= 20 THEN [status |-> "poor", score |-> score]
        ELSE [status |-> "critical", score |-> score]

\* utils.calculateHealth
CalculateHealth(daysSinceUpdate, downloads, isDeprecated, hasVulnerabilities) ==
    LET agePenalty ==
            IF daysSinceUpdate > 1095 THEN 60
            ELSE IF daysSinceUpdate > 730 THEN 40
            ELSE IF daysSinceUpdate > 365 THEN 20
            ELSE 0
        downloadPenalty ==
            IF downloads < 10 THEN 30
            ELSE IF downloads < 100 THEN 15
            ELSE IF downloads < 1000 THEN 5
            ELSE 0
        score == 100 - agePenalty - downloadPenalty
    IN  IF isDeprecated THEN [status |-> "deprecated", score |-> 0]
        ELSE IF hasVulnerabilities THEN [status |-> "vulnerable", score |-> 20]
        ELSE IF score >= 80 THEN [status |-> "excellent", score |-> score]
        ELSE IF score >= 60 THEN [status |-> "good", score |-> score]
        ELSE IF score >= 40 THEN [status |-> "fair", score |-> score]
        ELSE IF score >= 20 THEN [status |-> "poor", score |-> score]
        ELSE [status |-> "critical", score |-> score]

(***************************************************************************)
(* The registry's answers.  A body is named; these tables give the parts   *)
(* of each body that the scanner reads.                                    *)
(***************************************************************************)
V100 == <<"1", ".", "0", ".", "0">>
V200beta == <<"2", ".", "0", ".", "0", "-", "b", ".", "1">>
Vbad == <<"x">>

Package(name, version) == [name |-> name, version |-> version]

\* data.objects of a search body, each object's package
SearchBodies == {"s_none", "s_mixed"}

Objects(body) ==
    CASE body = "s_mixed" ->
            <<Package("a", V100), Package("b", V200beta), Package("c", Vbad)>>
      [] OTHER -> <<>>

\* A package metadata body: name, dist-tags.latest (<<>> when missing), whether
\* versions[latest] exists and is deprecated, whether time.created and
\* time[latest] are dates, and the age in days of time[latest].
MetaBodies == {"m_ok", "m_nolatest", "m_notime"}

Meta(body) ==
    CASE body = "m_ok" ->
            [name |-> "p", latest |-> V100, hasVersion |-> TRUE, deprecated |-> FALSE, hasTimes |-> TRUE, ageDays |-> 10]
      [] body = "m_stale" ->
            [name |-> "p", latest |-> V100, hasVersion |-> TRUE, deprecated |-> FALSE, hasTimes |-> TRUE, ageDays |-> 800]
      [] body = "m_deprecated" ->
            [name |-> "p", latest |-> V100, hasVersion |-> TRUE, deprecated |-> TRUE, hasTimes |-> TRUE, ageDays |-> 10]
      [] body = "m_notime" ->
            [name |-> "p", latest |-> V100, hasVersion |-> TRUE, deprecated |-> FALSE, hasTimes |-> FALSE, ageDays |-> 0]
      [] body = "m_noversion" ->
            [name |-> "p", latest |-> V100, hasVersion |-> FALSE, deprecated |-> FALSE, hasTimes |-> TRUE, ageDays |-> 10]
      [] OTHER ->
            [name |-> "p", latest |-> <<>>, hasVersion |-> FALSE, deprecated |-> FALSE, hasTimes |-> TRUE, ageDays |-> 0]

\* data.downloads of a download-point body
DownloadBodies == {"dl_many"}

Downloads(body) == IF body = "dl_many" THEN 5000 ELSE 0

\* The bodies the server may send in answer to a URL
BodiesFor(url) ==
    CASE url[1] = "search" -> SearchBodies
      [] url[1] = "meta" -> MetaBodies
      [] OTHER -> DownloadBodies

\* The same, with the metadata of a package last published over two years ago
\* and of a deprecated one
AllMetaBodies == MetaBodies \cup {"m_stale", "m_deprecated"}

BodiesOfAnyAge(url) == IF url[1] = "meta" THEN AllMetaBodies ELSE BodiesFor(url)

(***************************************************************************)
(* NPMScanner                                                              *)
(***************************************************************************)
Queries == {"q"}
Names == {"p"}

\* The package names compare is called with
Packages == {"p", "m"}

\* The options objects the callers pass: a field is <<v>>, or <<>> when left out.
SearchOptions == {[includeUnstable |-> <<>>], [includeUnstable |-> <<TRUE>>]}
ScanOptions == {[includeDownloads |-> <<>>], [includeDownloads |-> <<FALSE>>]}

\* JSON.stringify(options)
Stringify(options) ==
    LET field == CHOOSE f \in DOMAIN options : TRUE IN
    IF options[field] = <<>> THEN "{}"
    ELSE IF options[field][1]
         THEN IF field = "includeUnstable"
              THEN "{includeUnstable:true}" ELSE "{includeDownloads:true}"
         ELSE IF field = "includeUnstable"
              THEN "{includeUnstable:false}" ELSE "{includeDownloads:false}"

\* The cache keys and the values the scanner stores under them.
SearchKey(query, options) == <<"search", query, Stringify(options)>>
ScanKey(name, options) == <<"scan", name, Stringify(options)>>

Keys ==
    {SearchKey(q, o) : q \in Queries, o \in SearchOptions}
        \cup {ScanKey(n, o) : n \in Names \cup Packages, o \in ScanOptions}

\* Mutant: an empty array counts as no cached value.
Truthy_NonEmpty(value) ==
    value # Null /\ (value.kind = "list" => value.items # <<>>)

\* if (cached): an array (empty or not) and an object are truthy, null is not
Truthy(value) == value # Null

\* One entry of the search results; the fields left out are copied from the body.
Entry(pkg) ==
    [name |-> pkg.name, version |-> pkg.version, versionInfo |-> ParseVersion(pkg.version)]

\* Mutant: only entries whose version parses as stable are kept.
NotUnstable_Parsed(entry) == entry.versionInfo.parsed /\ entry.versionInfo.isStable

\* pkg.versionInfo?.isStable !== false
NotUnstable(entry) == entry.versionInfo.parsed => entry.versionInfo.isStable

\* The results of search, from the body of the answer
SearchResults(body, includeUnstable) ==
    LET all == [i \in 1 .. Len(Objects(body)) |-> Entry(Objects(body)[i])] IN
    [kind |-> "list",
     items |-> IF includeUnstable THEN all ELSE SelectSeq(all, NotUnstable)]

MsPerDay == 1000 * 60 * 60 * 24

\* Math.floor((Date.now() - lastUpdate.getTime()) / (1000 * 60 * 60 * 24)), with
\* time[latest] ageDays days before the clock's origin: the whole days are taken
\* out of the quotient, which keeps the numbers within 32 bits
DaysSinceUpdate(meta) == meta.ageDays + now \div MsPerDay

\* !latest || !versionInfo
NoValidVersion(meta) == meta.latest = <<>> \/ ~meta.hasVersion

\* The report of scan; the fields left out are copied from the body.
Report(meta, weekDownloads, monthDownloads) ==
    LET health == CalculateHealth(DaysSinceUpdate(meta), weekDownloads,
                                  meta.deprecated, FALSE) IN
    [ kind            |-> "report",
      name            |-> meta.name,
      version         |-> meta.latest,
      versionInfo     |-> ParseVersion(meta.latest),
      daysSinceUpdate |-> DaysSinceUpdate(meta),
      downloads       |-> [week |-> weekDownloads, month |-> monthDownloads],
      health          |-> health.status,
      healthScore     |-> health.score,
      deprecated      |-> meta.deprecated ]

\* Mutant: no message is taken for a 404.
IncludesHttp404_Never(message) == FALSE

\* error.message.includes('HTTP 404')
IncludesHttp404(message) ==
    \E i \in 1 .. Len(message) - 1 : message[i] = "HTTP " /\ message[i + 1] = "404"

\* Mutant: the underlying error is thrown on as it is.
SearchFailed_Bare(error) == error

\* throw new Error(`Search failed: ${error.message}`)
SearchFailed(error) == Err("Error", <<"Search failed: ">> \o error.message)

\* new Error(`Package '${packageName}' not found in NPM registry`)
NotFound(name) == Err("Error", <<"Package '", name, "' not found in NPM registry">>)

\* The catch of scan
ScanFailed(name, error) ==
    IF IncludesHttp404(error.message)
    THEN NotFound(name)
    ELSE Err("Error", <<"Scan failed: ">> \o error.message)

NoValidVersions == Err("Error", <<"Package has no valid versions">>)

\* createdAt.toISOString() or lastUpdate.toISOString() of an Invalid Date
InvalidTime == Err("RangeError", <<"Invalid time value">>)

\* A call of search or scan: its arguments, its cache key, whether the cache
\* answered it (hit), the client.get calls it made (gets) and how it ended.  As
\* the call starts: recent tells whether a call with the same arguments returned
\* at most ttl ms ago, stored is <<v>> when a call with the same arguments
\* stored its result v at most ttl ms ago with no clearCache() since, afterClear
\* tells whether clearCache() was called since the call before it started,
\* onEmpty whether that clearCache() was the last operation on the cache, and
\* afterFail whether a call with the same arguments has failed since the call
\* before it started.
NewOp(kind, arg, options, key) ==
    [ kind    |-> kind,
      arg     |-> arg,
      options |-> options,
      key     |-> key,
      pc      |-> "await",
      hit     |-> FALSE,
      gets    |-> <<>>,
      result  |-> Null,
      error   |-> NoError,
      recent  |-> okAt[key] # <<>> /\ now - okAt[key][1] <= ttl,
      stored  |-> IF sets[key] # <<>> /\ now - sets[key][Len(sets[key])].at <= ttl
                  THEN <<sets[key][Len(sets[key])].data>> ELSE <<>>,
      afterClear |-> cleared,
      onEmpty    |-> lastOp.op = "clear",
      afterFail  |-> \E o \in DOMAIN ops : ops[o].key = key /\ ops[o].pc = "thrown" ]

Returned(op, result) == [op EXCEPT !.pc = "returned", !.result = result]
Thrown(op, error) == [op EXCEPT !.pc = "thrown", !.error = error]

Settled(c) == c.pc \in {"returned", "thrown"}

\* includeUnstable = false, includeDownloads = true
IncludeUnstable(options) == Default(options.includeUnstable, FALSE)
IncludeDownloads(options) == Default(options.includeDownloads, TRUE)

\* search after const { data } = await this.client.get(url.toString())
SearchContinues(op, cs) ==
    LET c == cs[op.gets[1]] IN
    IF c.pc = "returned"
    THEN Returned(op, SearchResults(c.result.data, IncludeUnstable(op.options)))
    ELSE IF c.pc = "thrown" THEN Thrown(op, SearchFailed(c.lastError))
    ELSE op

\* Mutant: downloads that are not known count as many.
DownloadsOf_Many(op, cs, n) ==
    IF n <= Len(op.gets) /\ cs[op.gets[n]].pc = "returned"
    THEN Downloads(cs[op.gets[n]].result.data)
    ELSE 1000

\* results[n]?.data?.downloads || 0, where a failed download fetch gave null
DownloadsOf(op, cs, n) ==
    IF n <= Len(op.gets) /\ cs[op.gets[n]].pc = "returned"
    THEN Downloads(cs[op.gets[n]].result.data)
    ELSE 0

\* scan after const results = await Promise.all(promises): the metadata fetch
\* rejects it at once, the download fetches never do
ScanContinues(op, cs) ==
    LET c == cs[op.gets[1]] IN
    IF c.pc = "thrown" THEN Thrown(op, ScanFailed(op.arg, c.lastError))
    ELSE IF \A n \in 1 .. Len(op.gets) : Settled(cs[op.gets[n]])
    THEN IF NoValidVersion(Meta(c.result.data))
         THEN Thrown(op, ScanFailed(op.arg, NoValidVersions))
         ELSE IF ~Meta(c.result.data).hasTimes
         THEN Thrown(op, ScanFailed(op.arg, InvalidTime))
         ELSE Returned(op, Report(Meta(c.result.data),
                                  DownloadsOf(op, cs, 2), DownloadsOf(op, cs, 3)))
    ELSE op

\* The call as it is once the client.get calls stand as in cs
Continued(op, cs) ==
    IF op.pc # "await" THEN op
    ELSE IF op.kind = "search" THEN SearchContinues(op, cs)
    ELSE ScanContinues(op, cs)

\* Mutant: cacheKey is shared by the calls in flight, and holds the key of the
\* oldest of them.
StoreResult_SharedKey(before, after) ==
    LET done == {o \in DOMAIN before :
                    before[o].pc = "await" /\ after[o].pc = "returned"} IN
    IF done = {} THEN UNCHANGED <<cache, lastOp, sets, okAt>>
    ELSE LET o == CHOOSE x \in done : TRUE
             key == after[1].key IN
         /\ cache' = CacheSet(cache, key, after[o].result)
         /\ lastOp' = [op |-> "set", key |-> key, result |-> Null, at |-> now]
         /\ sets' = [sets EXCEPT ![key] =
                        Remember(@, after[o].result, key \in DOMAIN cache)]
         /\ okAt' = [okAt EXCEPT ![key] = <<now>>]

\* Mutant: a call that fails leaves an empty result in the cache.
StoreResult_CachesFailure(before, after) ==
    LET done == {o \in DOMAIN before :
                    before[o].pc = "await" /\ after[o].pc = "returned"}
        failed == {o \in DOMAIN before :
                    before[o].pc = "await" /\ after[o].pc = "thrown"} IN
    IF done # {}
    THEN LET o == CHOOSE x \in done : TRUE IN
         /\ cache' = CacheSet(cache, after[o].key, after[o].result)
         /\ lastOp' = [op |-> "set", key |-> after[o].key, result |-> Null, at |-> now]
         /\ sets' = [sets EXCEPT ![after[o].key] =
                        Remember(@, after[o].result, after[o].key \in DOMAIN cache)]
         /\ okAt' = [okAt EXCEPT ![after[o].key] = <<now>>]
    ELSE IF failed # {}
    THEN LET o == CHOOSE x \in failed : TRUE IN
         /\ cache' = CacheSet(cache, after[o].key, [kind |-> "list", items |-> <<>>])
         /\ UNCHANGED <<lastOp, sets, okAt>>
    ELSE UNCHANGED <<cache, lastOp, sets, okAt>>

\* this.cache.set(cacheKey, results) of the call that returns in this step
StoreResult(before, after) ==
    LET done == {o \in DOMAIN before :
                    before[o].pc = "await" /\ after[o].pc = "returned"} IN
    IF done = {} THEN UNCHANGED <<cache, lastOp, sets, okAt>>
    ELSE LET o == CHOOSE x \in done : TRUE IN
         /\ cache' = CacheSet(cache, after[o].key, after[o].result)
         /\ lastOp' = [op |-> "set", key |-> after[o].key, result |-> Null, at |-> now]
         /\ sets' = [sets EXCEPT ![after[o].key] =
                        Remember(@, after[o].result, after[o].key \in DOMAIN cache)]
         /\ okAt' = [okAt EXCEPT ![after[o].key] = <<now>>]

\* What is followed of a client.get call made by search or scan.  Once the call
\* has settled, only how it ended and what it returned or threw; once the search
\* or scan has ended, nothing reads the call any more (a download fetch that
\* outlives a failed scan ends in .catch(() => null)): if it has not settled by
\* then it is "dropped".
Forget(c, ended) ==
    [ url        |-> c.url,
      pc         |-> IF ended /\ ~Settled(c) THEN "dropped" ELSE c.pc,
      attempt    |-> 0,
      timerArmed |-> FALSE,
      timerDue   |-> 0,
      aborted    |-> FALSE,
      status     |-> 0,
      lastError  |-> c.lastError,
      result     |-> c.result,
      backoffDue |-> 0,
      doneAt     |-> 0,
      log        |-> <<>> ]

Collect(cs, after) ==
    [i \in DOMAIN cs |->
        IF \E o \in DOMAIN after :
               after[o].pc # "await" /\ \E n \in DOMAIN after[o].gets : after[o].gets[n] = i
        THEN Forget(cs[i], TRUE)
        ELSE IF Settled(cs[i]) /\ \E o \in DOMAIN after :
                    \E n \in DOMAIN after[o].gets : after[o].gets[n] = i
        THEN Forget(cs[i], FALSE)
        ELSE cs[i]]

\* Mutant: a failed scan is reported without its error message.
Outcome_NoError(name, op) ==
    [ name    |-> name,
      success |-> op.pc = "returned",
      data    |-> IF op.pc = "returned" THEN op.result ELSE Null,
      error   |-> <<>> ]

\* One entry of what compare returns, from a settled scan; error is <<>> for
\* null and <<message>> otherwise.
Outcome(name, op) ==
    [ name    |-> name,
      success |-> op.pc = "returned",
      data    |-> IF op.pc = "returned" THEN op.result ELSE Null,
      error   |-> IF op.pc = "thrown" THEN <<op.error.message>> ELSE <<>> ]

\* Mutant: Promise.all in place of Promise.allSettled.
CompareContinues_FailFast(c, os) ==
    IF c.pc # "await" THEN c
    ELSE IF \E n \in DOMAIN c.scans : os[c.scans[n]].pc = "thrown"
    THEN [c EXCEPT !.pc = "thrown"]
    ELSE IF \A n \in DOMAIN c.scans : Settled(os[c.scans[n]])
    THEN [c EXCEPT !.pc = "returned",
                   !.result = [n \in DOMAIN c.names |-> Outcome(c.names[n], os[c.scans[n]])]]
    ELSE c

\* compare after await Promise.allSettled(...), where the scans stand as in os
CompareContinues(c, os) ==
    IF c.pc = "await" /\ \A n \in DOMAIN c.scans : Settled(os[c.scans[n]])
    THEN [c EXCEPT !.pc = "returned",
                   !.result = [n \in DOMAIN c.names |-> Outcome(c.names[n], os[c.scans[n]])]]
    ELSE c

\* One step of the client.get calls, which leaves them as cs: when a call
\* settles, the search or scan that awaits it goes on in the same turn of the
\* event loop, and so does compare when its last scan settles.
Step(cs) ==
    /\ ops' = [o \in DOMAIN ops |-> Continued(ops[o], cs)]
    /\ calls' = Collect(cs, ops')
    /\ StoreResult(ops, ops')
    /\ cmp' = CompareContinues(cmp, ops')
    /\ UNCHANGED <<now, timeout, retries, ttl, cleared, util>>

\* No set() call is remembered for any key.
NoSets == [k \in Keys |-> <<>>]

\* The keys and values of the calls made when the cache is exercised alone
CacheKeys == {SearchKey("q", [includeUnstable |-> <<>>]), ScanKey("p", [includeDownloads |-> <<>>])}
Values == {SearchResults("s_none", FALSE), SearchResults("s_mixed", FALSE)}

\* No function of utils is called
NoUtil == <<>>

\* No call of compare was made.
NoCompare == [pc |-> "none", names |-> <<>>, scans |-> <<>>, result |-> <<>>]
InFlight(c) == c.pc \in {"fetch", "json"}

\* Something is due at the current instant: the clock waits for it.
Urgent(c) ==
    \/ c.timerArmed /\ c.timerDue <= now
    \/ c.pc = "backoff" /\ c.backoffDue <= now
    \/ InFlight(c) /\ c.aborted

Calls == 1 .. Len(calls)

\* client.get(url), called once and by no search or scan
Get(url) ==
    /\ calls = <<>>
    /\ Step(Append(calls, StartCall(url)))

\* setTimeout(() => controller.abort(), this.timeout) fires
TimerFires(i) ==
    /\ calls[i].timerArmed
    /\ calls[i].timerDue <= now
    /\ Step([calls EXCEPT ![i] = [@ EXCEPT !.timerArmed = FALSE, !.aborted = TRUE]])

\* await fetch(...) or await response.json() rejects because the signal is aborted
AbortRejects(i) ==
    /\ InFlight(calls[i])
    /\ calls[i].aborted
    /\ Step([calls EXCEPT ![i] = Catch(@, AbortError)])

\* await fetch(...) rejects: the network failed
FetchRejects(i) ==
    /\ calls[i].pc = "fetch"
    /\ ~calls[i].aborted
    /\ Step([calls EXCEPT ![i] = Catch(@, NetworkError)])

\* await fetch(...) resolves with a response; if (!response.ok) throw ...
FetchResponds(i, status) ==
    /\ calls[i].pc = "fetch"
    /\ ~calls[i].aborted
    /\ Step([calls EXCEPT ![i] = OnResponse(Sent(@, "status", status), status)])

\* await response.json() resolves
JsonResolves(i, data) ==
    /\ calls[i].pc = "json"
    /\ ~calls[i].aborted
    /\ Step([calls EXCEPT ![i] = Return(Sent(@, "data", data), data)])

\* await response.json() rejects: the body is not JSON
JsonRejects(i) ==
    /\ calls[i].pc = "json"
    /\ ~calls[i].aborted
    /\ Step([calls EXCEPT ![i] = Catch(@, SyntaxError)])

\* the backoff's setTimeout(resolve, ...) fires
BackoffEnds(i) ==
    /\ calls[i].pc = "backoff"
    /\ calls[i].backoffDue <= now
    /\ Step([calls EXCEPT ![i] = Retry(@)])

\* Time passes, unless a timer is due or a rejection is pending.
Advance(maxTicks) ==
    /\ now < maxTicks * TickMs
    /\ \A i \in Calls : ~Urgent(calls[i])
    /\ now' = now + TickMs
    /\ UNCHANGED <<timeout, retries, calls, ttl, cache, lastOp, sets, ops, okAt, cleared, cmp, util>>

\* cache.get(key)
Lookup(key) ==
    LET r == CacheGet(cache, key) IN
    /\ cache' = r.map
    /\ lastOp' = [op |-> "get", key |-> key, result |-> r.value, at |-> now]
    /\ UNCHANGED <<now, timeout, retries, calls, ttl, sets, ops, okAt, cleared, cmp, util>>

\* cache.set(key, data)
Store(key, data) ==
    /\ cache' = CacheSet(cache, key, data)
    /\ lastOp' = [op |-> "set", key |-> key, result |-> Null, at |-> now]
    /\ sets' = [sets EXCEPT ![key] = Remember(@, data, key \in DOMAIN cache)]
    /\ UNCHANGED <<now, timeout, retries, calls, ttl, ops, okAt, cleared, cmp, util>>

\* cache.clear()
Clear ==
    /\ cache' = CacheClear(cache)
    /\ lastOp' = [op |-> "clear", key |-> <<>>, result |-> Null, at |-> now]
    /\ sets' = NoSets
    /\ UNCHANGED <<now, timeout, retries, calls, ttl, ops, okAt, cleared, cmp, util>>

TtlArgs == {<<>>, <<0>>, <<TickMs>>, <<2 * TickMs>>}

\* new ResultCache(ttl)
InitCache ==
    /\ \E t \in TtlArgs : ttl = Default(t, DefaultTtl)
    /\ cache = EmptyMap
    /\ lastOp = NoOp
    /\ sets = NoSets

(***************************************************************************)
(* The calls of the scanner's methods, by a caller that awaits each search *)
(* and scan before it makes the next call.                                 *)
(***************************************************************************)
Idle == \A o \in DOMAIN ops : ops[o].pc # "await"

\* A search or scan that ended before the current one started: it is counted and
\* nothing else of it is kept.
Past ==
    [ kind    |-> "past",
      arg     |-> "",
      options |-> [none |-> <<>>],
      key     |-> <<>>,
      pc      |-> "past",
      hit     |-> FALSE,
      gets    |-> <<>>,
      result  |-> Null,
      error   |-> NoError,
      recent  |-> FALSE,
      stored  |-> <<>>,
      afterClear |-> FALSE,
      onEmpty    |-> FALSE,
      afterFail  |-> FALSE ]

\* What the start of a search or scan reads and writes
Current == [cache |-> cache, lastOp |-> lastOp, calls |-> calls, ops |-> ops, okAt |-> okAt]

\* A scan made by compare is kept for compare to read.
Held(o) == \E n \in DOMAIN cmp.scans : cmp.scans[n] = o

\* Before a call starts: the searches and scans that have ended are no longer
\* followed, nor are the client.get calls once none of them is awaited.
Retire(st) ==
    [st EXCEPT
        !.ops = [o \in DOMAIN st.ops |->
                    IF st.ops[o].pc = "await" \/ Held(o) THEN st.ops[o] ELSE Past],
        !.calls = IF \A o \in DOMAIN st.ops : st.ops[o].pc # "await" THEN <<>> ELSE st.calls]

\* Mutant: a call joins a call with the same arguments that is under way, and
\* awaits its requests.
Begin_Coalesced(st, op, urls) ==
    LET r == CacheGet(st.cache, op.key)
        looked == [st EXCEPT
                      !.cache = r.map,
                      !.lastOp = [op |-> "get", key |-> op.key, result |-> r.value, at |-> now]]
        under == {o \in DOMAIN st.ops : st.ops[o].key = op.key /\ st.ops[o].pc = "await"}
    IN
    IF Truthy(r.value)
    THEN [looked EXCEPT
             !.ops = Append(st.ops, Returned([op EXCEPT !.hit = TRUE], r.value)),
             !.okAt = [st.okAt EXCEPT ![op.key] = <<now>>]]
    ELSE IF under # {}
    THEN [looked EXCEPT
             !.ops = Append(st.ops,
                        [op EXCEPT !.gets = st.ops[CHOOSE o \in under : TRUE].gets])]
    ELSE [looked EXCEPT
             !.calls = st.calls \o [n \in 1 .. Len(urls) |-> StartCall(urls[n])],
             !.ops = Append(st.ops,
                        [op EXCEPT !.gets = [n \in 1 .. Len(urls) |-> Len(st.calls) + n]])]

\* The start of search or scan: the cache lookup and, on a miss, the client.get
\* calls for urls, up to the first await.
Begin(st, op, urls) ==
    LET r == CacheGet(st.cache, op.key)
        looked == [st EXCEPT
                      !.cache = r.map,
                      !.lastOp = [op |-> "get", key |-> op.key, result |-> r.value, at |-> now]]
    IN
    IF Truthy(r.value)
    THEN [looked EXCEPT
             !.ops = Append(st.ops, Returned([op EXCEPT !.hit = TRUE], r.value)),
             !.okAt = [st.okAt EXCEPT ![op.key] = <<now>>]]
    ELSE [looked EXCEPT
             !.calls = st.calls \o [n \in 1 .. Len(urls) |-> StartCall(urls[n])],
             !.ops = Append(st.ops,
                        [op EXCEPT !.gets = [n \in 1 .. Len(urls) |-> Len(st.calls) + n]])]

\* The scanner after the start of one or more calls
Becomes(st) ==
    /\ cache' = st.cache
    /\ lastOp' = st.lastOp
    /\ calls' = st.calls
    /\ ops' = st.ops
    /\ okAt' = st.okAt
    /\ cleared' = FALSE
    /\ UNCHANGED <<now, timeout, retries, ttl, sets, util>>

Start(op, urls) ==
    /\ Becomes(Begin(Retire(Current), op, urls))
    /\ UNCHANGED cmp

\* Mutant: scan fetches the metadata only.
ScanUrls_MetaOnly(name, options) == <<Url("meta", name)>>

\* The URLs scan fetches
ScanUrls(name, options) ==
    IF IncludeDownloads(options)
    THEN <<Url("meta", name), Url("week", name), Url("month", name)>>
    ELSE <<Url("meta", name)>>

\* scanner.search(query, options), whatever else is running
CallSearch(query, options) ==
    /\ Len(ops) < MaxOps
    /\ Start(NewOp("search", query, options, SearchKey(query, options)),
             <<Url("search", query)>>)

\* scanner.scan(packageName, options), whatever else is running
CallScan(name, options) ==
    /\ Len(ops) < MaxOps
    /\ Start(NewOp("scan", name, options, ScanKey(name, options)), ScanUrls(name, options))

\* scanner.search(query, options) by the caller that awaits each call
Search(query, options) == Idle /\ CallSearch(query, options)

\* scanner.scan(packageName, options) by the caller that awaits each call
Scan(name, options) == Idle /\ CallScan(name, options)

\* packageNames.map(name => this.scan(name, options)): each scan runs up to its
\* first await before the next one starts
RECURSIVE BeginScans(_, _, _)
BeginScans(st, names, options) ==
    IF names = <<>> THEN st
    ELSE BeginScans(Begin(st, NewOp("scan", Head(names), options,
                                    ScanKey(Head(names), options)),
                          ScanUrls(Head(names), options)),
                    Tail(names), options)

\* scanner.compare(packageNames, options), called once
Compare(names, options) ==
    LET before == Retire(Current) IN
    /\ cmp.pc = "none"
    /\ Len(ops) + Len(names) <= MaxOps
    /\ Becomes(BeginScans(before, names, options))
    /\ cmp' = CompareContinues(
                  [ pc     |-> "await",
                    names  |-> names,
                    scans  |-> [n \in DOMAIN names |-> Len(before.ops) + n],
                    result |-> <<>> ],
                  ops')

\* scanner.clearCache()
ClearCache ==
    /\ cache' = CacheClear(cache)
    /\ lastOp' = [op |-> "clear", key |-> <<>>, result |-> Null, at |-> now]
    /\ sets' = NoSets
    /\ cleared' = TRUE
    /\ UNCHANGED <<now, timeout, retries, calls, ttl, ops, okAt, cmp, util>>

\* new HttpClient(timeout, retries)
InitClient ==
    /\ \E t \in TimeoutArgs : timeout = Default(t, DefaultTimeout)
    /\ \E r \in RetriesArgs : retries = Default(r, DefaultRetries)
    /\ calls = <<>>

InitHttp ==
    /\ now = 0
    /\ InitClient
    /\ ttl = DefaultTtl
    /\ cache = EmptyMap
    /\ lastOp = NoOp
    /\ sets = NoSets
    /\ ops = <<>>
    /\ okAt = NoSets
    /\ cleared = FALSE
    /\ cmp = NoCompare
    /\ util = NoUtil

Tick == Advance(MaxTicks)

NextHttp ==
    \/ \E u \in {Url("search", "q")} : Get(u)
    \/ \E i \in Calls : TimerFires(i)
    \/ \E i \in Calls : AbortRejects(i)
    \/ \E i \in Calls : FetchRejects(i)
    \/ \E i \in Calls, s \in Statuses : FetchResponds(i, s)
    \/ \E i \in Calls : \E d \in BodiesFor(calls[i].url) : JsonResolves(i, d)
    \/ \E i \in Calls : JsonRejects(i)
    \/ \E i \in Calls : BackoffEnds(i)
    \/ Tick

SpecHttp == InitHttp /\ [][NextHttp]_vars

\* The cache alone, driven by arbitrary get, set and clear calls as time passes.
InitCacheOnly ==
    /\ now = 0
    /\ timeout = DefaultTimeout
    /\ retries = DefaultRetries
    /\ calls = <<>>
    /\ ops = <<>>
    /\ okAt = NoSets
    /\ cleared = FALSE
    /\ cmp = NoCompare
    /\ util = NoUtil
    /\ InitCache

CacheTick == Advance(MaxCacheTicks)

NextCache ==
    \/ \E k \in CacheKeys : Lookup(k)
    \/ \E k \in CacheKeys, v \in Values : Store(k, v)
    \/ Clear
    \/ CacheTick

SpecCache == InitCacheOnly /\ [][NextCache]_vars

\* new NPMScanner({ retries: 0, cacheTtl: 50 }): the default timeout does not
\* elapse while the clock runs, and with no retries there is no backoff, so the
\* timer and the backoff take no step.
ScannerTimeoutArgs == {<<>>}
ScannerRetriesArgs == {<<0>>}
ScannerTtlArgs == {<<TickMs>>}

\* The statuses the registry answers with
ScannerStatuses == {200, 404}

InitScanner ==
    /\ now = 0
    /\ \E t \in ScannerTimeoutArgs : timeout = Default(t, DefaultTimeout)
    /\ \E r \in ScannerRetriesArgs : retries = Default(r, DefaultRetries)
    /\ \E t \in ScannerTtlArgs : ttl = Default(t, DefaultTtl)
    /\ calls = <<>>
    /\ cache = EmptyMap
    /\ lastOp = NoOp
    /\ sets = NoSets
    /\ ops = <<>>
    /\ okAt = NoSets
    /\ cleared = FALSE
    /\ cmp = NoCompare
    /\ util = NoUtil

ScanTick == Advance(MaxScanTicks)

NextScanner ==
    \/ \E q \in Queries, o \in SearchOptions : Search(q, o)
    \/ \E n \in Names, o \in ScanOptions : Scan(n, o)
    \/ ClearCache
    \/ \E i \in Calls : FetchRejects(i)
    \/ \E i \in Calls, s \in ScannerStatuses : FetchResponds(i, s)
    \/ \E i \in Calls : \E d \in BodiesFor(calls[i].url) : JsonResolves(i, d)
    \/ \E i \in Calls : JsonRejects(i)
    \/ ScanTick

SpecScanner == InitScanner /\ [][NextScanner]_vars

\* The scanner with calls that overlap: one compare, and search and scan calls
\* made while others are awaiting their answers.
NameLists == {<<>>} \cup {<<n>> : n \in Packages} \cup {<<n, m>> : n, m \in Packages}

\* The overlapping scans fetch the metadata only.
ConcurrentScanOptions == {[includeDownloads |-> <<FALSE>>]}

NextConcurrent ==
    \/ \E names \in NameLists, o \in ConcurrentScanOptions : Compare(names, o)
    \/ \E q \in Queries, o \in SearchOptions : CallSearch(q, o)
    \/ \E n \in Names, o \in ConcurrentScanOptions : CallScan(n, o)
    \/ \E i \in Calls : FetchRejects(i)
    \/ \E i \in Calls, s \in ScannerStatuses : FetchResponds(i, s)
    \/ \E i \in Calls : \E d \in BodiesOfAnyAge(calls[i].url) : JsonResolves(i, d)

SpecConcurrent == InitScanner /\ [][NextConcurrent]_vars

\* The scanner and a caller that awaits each search and scan, while the clock
\* stands still: nothing expires and the cache is not cleared.
NextCalls ==
    \/ \E q \in Queries, o \in SearchOptions : Search(q, o)
    \/ \E n \in Names, o \in ScanOptions : Scan(n, o)
    \/ \E i \in Calls : FetchRejects(i)
    \/ \E i \in Calls, s \in Statuses : FetchResponds(i, s)
    \/ \E i \in Calls : \E d \in BodiesOfAnyAge(calls[i].url) : JsonResolves(i, d)
    \/ \E i \in Calls : JsonRejects(i)

SpecCalls == InitScanner /\ [][NextCalls]_vars

(***************************************************************************)
(* utils.calculateHealth, called once with arguments drawn from DaysSince, *)
(* DownloadCounts and the two flags.                                       *)
(***************************************************************************)
\* The scanner and its parts, left alone while a function of utils is called
IdleScanner ==
    /\ now = 0
    /\ timeout = DefaultTimeout
    /\ retries = DefaultRetries
    /\ calls = <<>>
    /\ ttl = DefaultTtl
    /\ cache = EmptyMap
    /\ lastOp = NoOp
    /\ sets = NoSets
    /\ ops = <<>>
    /\ okAt = NoSets
    /\ cleared = FALSE
    /\ cmp = NoCompare

scannerVars == <<now, timeout, retries, calls, ttl, cache, lastOp, sets, ops, okAt, cleared, cmp>>

DaysSince == 0 .. MaxDays
DownloadCounts == {0, 9, 10, 99, 100, 999, 1000, 5000}

InitHealth ==
    /\ IdleScanner
    /\ \E d \in DaysSince, n \in DownloadCounts, dep \in BOOLEAN, vuln \in BOOLEAN :
            util = [ pc                 |-> "call",
                     daysSinceUpdate    |-> d,
                     downloads          |-> n,
                     isDeprecated       |-> dep,
                     hasVulnerabilities |-> vuln,
                     result             |-> [status |-> "", score |-> 0] ]

\* utils.calculateHealth(daysSinceUpdate, downloads, isDeprecated, hasVulnerabilities)
CallCalculateHealth ==
    /\ util.pc = "call"
    /\ util' = [util EXCEPT
                   !.pc = "returned",
                   !.result = CalculateHealth(util.daysSinceUpdate, util.downloads,
                                              util.isDeprecated, util.hasVulnerabilities)]
    /\ UNCHANGED scannerVars

NextHealth == CallCalculateHealth

SpecHealth == InitHealth /\ [][NextHealth]_vars

(***************************************************************************)
(* utils.parseVersion, called once with a string over VersionChars: any    *)
(* string of MaxVersionLen characters or less, and 1.1.1 followed by one.  *)
(***************************************************************************)
VersionChars == {"1", ".", "-", "+", "b"}
ShortStrings == UNION {[1 .. n -> VersionChars] : n \in 0 .. MaxVersionLen}
VersionStrings == ShortStrings \cup {<<"1", ".", "1", ".", "1">> \o s : s \in ShortStrings}

InitVersion ==
    /\ IdleScanner
    /\ \E v \in VersionStrings :
            util = [pc |-> "call", version |-> v, result |-> NoVersion]

\* utils.parseVersion(version)
CallParseVersion ==
    /\ util.pc = "call"
    /\ util' = [util EXCEPT !.pc = "returned", !.result = ParseVersion(util.version)]
    /\ UNCHANGED scannerVars

NextVersion == CallParseVersion

SpecVersion == InitVersion /\ [][NextVersion]_vars

(***************************************************************************)
(* Claims about HttpClient.get, checked under SpecHttp.                    *)
(***************************************************************************)
\* The attempt ended in an error other than an abort.
FailedNoAbort(e) == e.outcome.name \notin {"pending", "ok", "AbortError"}

Failed(e) == e.outcome.name \notin {"pending", "ok"}

\* C1: when the first k attempts of a get call (0 <= k <= retries) fail with
\* non-abort errors and attempt k+1 succeeds, get has returned that attempt's
\* {data, status}, k+1 attempts were made and none follows the successful one.
C1_RetryThenSuccess ==
    \A i \in Calls :
        LET c == calls[i] IN
        \A j \in 1 .. Len(c.log) :
            ( /\ c.log[j].outcome = Succeeded
              /\ \A m \in 1 .. j - 1 : FailedNoAbort(c.log[m]) )
            => /\ j - 1 <= retries
               /\ Len(c.log) = j
               /\ c.pc = "returned"
               /\ c.doneAt = c.log[j].end
               /\ c.result = [data |-> c.log[j].data, status |-> c.log[j].status]

\* C1 witness: with retries = 2, two failed attempts and a third that succeeded
\* with a status other than 200.
C1_Witness ==
    \E i \in Calls :
        /\ retries = 2
        /\ Len(calls[i].log) = 3
        /\ calls[i].pc = "returned"
        /\ calls[i].result.status = 201
        /\ FailedNoAbort(calls[i].log[1])
        /\ FailedNoAbort(calls[i].log[2])

\* C2: with retries >= 0 a get call makes at least 1 and at most retries + 1
\* attempts, at most 3 with the default retries.
C2_AttemptBudget ==
    retries >= 0 =>
        \A i \in Calls :
            /\ Len(calls[i].log) >= 1
            /\ Len(calls[i].log) <= retries + 1
            /\ retries = DefaultRetries => Len(calls[i].log) <= 3

\* C2 witness: a call that used its whole budget of retries + 1 attempts, all failed.
C2_Witness ==
    \E i \in Calls :
        /\ retries = DefaultRetries
        /\ Len(calls[i].log) = retries + 1
        /\ calls[i].pc = "thrown"

\* C3: when all retries + 1 attempts fail, get returns nothing and throws the
\* error of the final attempt.
C3_ThrowsLastError ==
    \A i \in Calls :
        LET c == calls[i] IN
        ( /\ retries >= 0
          /\ Len(c.log) = retries + 1
          /\ \A j \in 1 .. Len(c.log) : Failed(c.log[j]) )
        => /\ c.pc = "thrown"
           /\ c.result = NoResult
           /\ c.lastError = c.log[Len(c.log)].outcome

\* C3 witness: three failed attempts whose last error differs from the first.
C3_Witness ==
    \E i \in Calls :
        LET c == calls[i] IN
        /\ retries = 2
        /\ c.pc = "thrown"
        /\ Len(c.log) = 3
        /\ c.log[3].outcome # c.log[1].outcome
        /\ c.log[3].outcome # c.log[2].outcome

\* C4: every attempt, retries included, is aborted once its request has been
\* pending for timeout ms: no attempt is in flight longer than that.
C4_EveryAttemptTimed ==
    \A i \in Calls :
        LET c == calls[i] IN
        InFlight(c) => now - c.log[Len(c.log)].start <= timeout

\* C5: an attempt that fails with an abort error is the last one: no backoff and
\* no further attempt follow, and get throws that error even if retries remain.
C5_AbortStops ==
    \A i \in Calls :
        LET c == calls[i] IN
        \A j \in 1 .. Len(c.log) :
            c.log[j].outcome = AbortError
            => /\ Len(c.log) = j
               /\ c.pc = "thrown"
               /\ c.doneAt = c.log[j].end
               /\ c.lastError = AbortError

\* C5 witness: the first attempt was aborted with both retries left.
C5_Witness ==
    \E i \in Calls :
        /\ retries = 2
        /\ Len(calls[i].log) = 1
        /\ calls[i].log[1].outcome = AbortError
        /\ calls[i].pc = "thrown"

\* C6: after a failed attempt a < retries (no abort) get waits 2^a * 100 ms before
\* it starts attempt a + 1; it waits after no final failed attempt and after no
\* success.
C6_Backoff ==
    \A i \in Calls :
        LET c == calls[i] IN
        /\ \A j \in 1 .. Len(c.log) - 1 :
               c.log[j + 1].start - c.log[j].end = Pow2(j - 1) * 100
        /\ c.pc = "backoff" =>
               /\ c.attempt < retries
               /\ FailedNoAbort(c.log[Len(c.log)])
               /\ c.backoffDue = c.log[Len(c.log)].end + Pow2(c.attempt) * 100
        /\ (c.pc \in {"returned", "thrown"} /\ Len(c.log) > 0) =>
               c.doneAt = c.log[Len(c.log)].end

\* C6 witness: the third attempt started 200 ms after the second failed, which
\* started 100 ms after the first failed.
C6_Witness ==
    \E i \in Calls :
        LET c == calls[i] IN
        /\ Len(c.log) = 3
        /\ c.log[2].start = c.log[1].end + 100
        /\ c.log[3].start = c.log[2].end + 200

\* C7: an attempt answered with a non-2xx status fails with the error
\* 'HTTP <status>: <statusText>'; get does not return from it, and with attempts
\* left it retries after the backoff, as after a network error.
C7_NonOkStatus ==
    \A i \in Calls :
        LET c == calls[i] IN
        \A j \in 1 .. Len(c.log) :
            (c.log[j].status # 0 /\ ~(c.log[j].status \in 200 .. 299))
            => /\ c.log[j].outcome = HttpError(c.log[j].status, StatusText(c.log[j].status))
               /\ j - 1 < retries =>
                      \/ j < Len(c.log) /\ c.log[j + 1].start = c.log[j].end + Pow2(j - 1) * 100
                      \/ j = Len(c.log) /\ c.pc = "backoff"
               /\ j - 1 >= retries =>
                      /\ c.pc = "thrown"
                      /\ c.lastError = c.log[j].outcome

\* C7 witness: a 404 answer to the first attempt, then a second attempt.
C7_Witness ==
    \E i \in Calls :
        /\ Len(calls[i].log) = 2
        /\ calls[i].log[1].status = 404
        /\ calls[i].log[1].outcome = HttpError(404, "Not Found")

(***************************************************************************)
(* Claims about ResultCache, checked under SpecCache.                      *)
(***************************************************************************)
\* The most recent set() of key k since the last clear(), when there is one.
LastSet(k) == sets[k][Len(sets[k])]

\* C8: with no clear() in between, get(k) returns the value of the most recent
\* set(k, v) exactly when at most ttl ms have passed since that set; otherwise it
\* returns null and leaves no entry for k.
C8_GetWithinTtl ==
    lastOp.op = "get" =>
        LET k == lastOp.key IN
        IF sets[k] # <<>> /\ lastOp.at - LastSet(k).at <= ttl
        THEN lastOp.result = LastSet(k).data
        ELSE lastOp.result = Null /\ k \notin DOMAIN cache

\* C8 witness: a get exactly ttl ms after the set returned the value.
C8_Witness ==
    /\ lastOp.op = "get"
    /\ ttl > 0
    /\ sets[lastOp.key] # <<>>
    /\ lastOp.at - LastSet(lastOp.key).at = ttl
    /\ lastOp.result = LastSet(lastOp.key).data

\* C9: set(k, v2) on an existing key replaces the value and restarts the lifetime:
\* a get(k) more than ttl ms after the set(k, v1) it overwrote but at most ttl ms
\* after set(k, v2) returns v2.
C9_SetRestartsLifetime ==
    lastOp.op = "get" =>
        LET h == sets[lastOp.key] IN
        ( /\ Len(h) = 2
          /\ h[2].existed
          /\ lastOp.at - h[1].at > ttl
          /\ lastOp.at - h[2].at <= ttl )
        => lastOp.result = h[2].data

\* C9 witness: such a get, after a set that replaced a different value.
C9_Witness ==
    /\ lastOp.op = "get"
    /\ Len(sets[lastOp.key]) = 2
    /\ sets[lastOp.key][2].existed
    /\ sets[lastOp.key][1].data # sets[lastOp.key][2].data
    /\ lastOp.at - sets[lastOp.key][1].at > ttl
    /\ lastOp.at - sets[lastOp.key][2].at <= ttl
    /\ lastOp.result = sets[lastOp.key][2].data

\* C10 as stated: a search or scan that starts at most ttl ms after a call with
\* the same arguments returned is answered from the cache, with no HTTP request.
\* This does not hold: clearCache() between the two calls empties the cache, and
\* a call answered from the cache does not restart the entry's lifetime.
C10_RepeatWithinTtl ==
    \A o \in DOMAIN ops :
        ops[o].recent =>
            /\ ops[o].pc = "returned"
            /\ ops[o].hit
            /\ ops[o].gets = <<>>

\* C10, amended: a search or scan that starts at most ttl ms after a call with
\* the same arguments fetched and stored its result, with no clearCache() since,
\* returns that result from the cache and issues no HTTP request.
C10_RepeatAfterStore ==
    \A o \in DOMAIN ops :
        ops[o].stored # <<>> =>
            /\ ops[o].pc = "returned"
            /\ ops[o].hit
            /\ ops[o].gets = <<>>
            /\ ops[o].result = ops[o].stored[1]

\* C10 witness: a call answered from the cache exactly ttl ms after the call with
\* the same arguments stored its result.
C10_Witness ==
    \E o \in DOMAIN ops :
        /\ ops[o].hit
        /\ ops[o].stored # <<>>
        /\ ops[o].gets = <<>>
        /\ lastOp.op = "get"
        /\ lastOp.key = ops[o].key
        /\ ttl > 0
        /\ lastOp.at - LastSet(ops[o].key).at = ttl

\* C28: reads do not extend the lifetime of an entry.  A search or scan whose
\* cache lookup comes more than ttl ms after the most recent set() of its key
\* finds the key absent and no entry is left for it, however recently a call
\* with the same arguments was served from the cache; such a call is never a hit.
C28_ReadsDoNotExtend ==
    /\ ( /\ lastOp.op = "get"
         /\ sets[lastOp.key] # <<>>
         /\ lastOp.at - LastSet(lastOp.key).at > ttl )
       => lastOp.result = Null /\ lastOp.key \notin DOMAIN cache
    /\ \A o \in DOMAIN ops : ops[o].stored = <<>> => ~ops[o].hit

\* C28 witness: a call with the same arguments returned at most ttl ms before
\* this call started, served from the cache, and yet this call, more than ttl ms
\* after the entry was set, finds the key absent.
C28_Witness ==
    /\ lastOp.op = "get"
    /\ ttl > 0
    /\ sets[lastOp.key] # <<>>
    /\ lastOp.at - LastSet(lastOp.key).at > ttl
    /\ lastOp.result = Null
    /\ \E o \in DOMAIN ops :
            /\ ops[o].key = lastOp.key
            /\ ops[o].recent
            /\ ~ops[o].hit
            /\ ops[o].pc = "await"

\* C11 as stated: the first search or scan that starts after a clearCache() finds
\* no cached entry and issues HTTP requests.  This does not hold: a call that is
\* in flight when clearCache() runs stores its result after the clear, and the
\* next call with its arguments is served from the cache.
C11_NextAfterClear ==
    \A o \in DOMAIN ops :
        ops[o].afterClear => ~ops[o].hit /\ ops[o].gets # <<>>

\* C11, amended: a search or scan that starts after a clearCache(), with no
\* result stored since the clear, finds no cached entry and issues HTTP requests,
\* whatever had been cached before the clear.
C11_MissOnEmptyCache ==
    \A o \in DOMAIN ops :
        ops[o].onEmpty => ~ops[o].hit /\ ops[o].gets # <<>>

\* C11 witness: such a call, less than ttl ms after a call with the same arguments
\* returned its result.
C11_Witness ==
    \E o \in DOMAIN ops :
        /\ ops[o].onEmpty
        /\ ops[o].recent
        /\ ~ops[o].hit
        /\ ops[o].gets # <<>>

\* The scan that compare made for its n-th name
ScanOf(n) == ops[cmp.scans[n]]

\* C12: compare never throws; what it returns has one entry per name, in the order
\* of the names, and each entry is either success with the scan's report as data
\* and no error, or failure with null data and the failed scan's error message.
C12_CompareEntries ==
    /\ cmp.pc # "thrown"
    /\ cmp.pc = "returned" =>
           /\ Len(cmp.result) = Len(cmp.names)
           /\ \A n \in DOMAIN cmp.names :
                  /\ cmp.result[n].name = cmp.names[n]
                  /\ ScanOf(n).arg = cmp.names[n]
                  /\ \/ /\ cmp.result[n].success
                        /\ ScanOf(n).pc = "returned"
                        /\ cmp.result[n].data = ScanOf(n).result
                        /\ cmp.result[n].data.kind = "report"
                        /\ cmp.result[n].error = <<>>
                     \/ /\ ~cmp.result[n].success
                        /\ ScanOf(n).pc = "thrown"
                        /\ cmp.result[n].data = Null
                        /\ cmp.result[n].error = <<ScanOf(n).error.message>>

\* C12 witness: compare of two names returned a report for the first and a
\* failure for the second.
C12_Witness ==
    /\ cmp.pc = "returned"
    /\ Len(cmp.names) = 2
    /\ cmp.result[1].success
    /\ ~cmp.result[2].success
    /\ cmp.result[2].error # <<>>

\* C13: once compare is called a scan has started for each of its names; a scan
\* that is still awaiting keeps its client.get calls whatever its siblings did;
\* and compare ends only when every one of its scans has settled.
C13_SettleAll ==
    cmp.pc # "none" =>
        /\ Len(cmp.scans) = Len(cmp.names)
        /\ \A n \in DOMAIN cmp.names :
               /\ cmp.scans[n] \in DOMAIN ops
               /\ ScanOf(n).kind = "scan"
               /\ ScanOf(n).arg = cmp.names[n]
               /\ ScanOf(n).pc = "await" =>
                      /\ cmp.pc = "await"
                      /\ ScanOf(n).gets # <<>>
                      /\ \A g \in DOMAIN ScanOf(n).gets :
                             calls[ScanOf(n).gets[g]].pc # "dropped"

\* C13 witness: one scan of compare has failed while another still awaits its
\* answer, and compare has not returned.
C13_Witness ==
    /\ cmp.pc = "await"
    /\ \E n, m \in DOMAIN cmp.names :
           /\ ScanOf(n).pc = "thrown"
           /\ ScanOf(m).pc = "await"
           /\ InFlight(calls[ScanOf(m).gets[1]])

\* The scans that fetched, with or without the download counts
Fetched(o) == ops[o].kind = "scan" /\ ops[o].pc # "await" /\ ~ops[o].hit

\* The client.get calls of a scan: metadata, last week, last month
MetaCall(o) == calls[ops[o].gets[1]]
WeekCall(o) == calls[ops[o].gets[2]]
MonthCall(o) == calls[ops[o].gets[3]]

\* The count scan takes from a download fetch
CountOf(c) == IF c.pc = "returned" THEN Downloads(c.result.data) ELSE 0

\* C14 as stated: a scan with includeDownloads succeeds whenever its metadata
\* fetch returned metadata with a valid latest version, with 0 for each download
\* count whose fetch failed, and fails whenever its metadata fetch failed.  This
\* does not hold: metadata without time.created or time[latest] makes
\* toISOString() throw, and the scan fails.
C14_DownloadsNeverFail ==
    \A o \in DOMAIN ops :
        Fetched(o) /\ IncludeDownloads(ops[o].options) =>
            /\ MetaCall(o).pc = "thrown" => ops[o].pc = "thrown"
            /\ ( /\ MetaCall(o).pc = "returned"
                 /\ ~NoValidVersion(Meta(MetaCall(o).result.data)) )
               => /\ ops[o].pc = "returned"
                  /\ ops[o].result.downloads.week = CountOf(WeekCall(o))
                  /\ ops[o].result.downloads.month = CountOf(MonthCall(o))

\* C14, the part that holds: the same, for metadata that has both dates.
C14_DownloadsSwallowed ==
    \A o \in DOMAIN ops :
        Fetched(o) /\ IncludeDownloads(ops[o].options) =>
            /\ MetaCall(o).pc = "thrown" => ops[o].pc = "thrown"
            /\ ( /\ MetaCall(o).pc = "returned"
                 /\ ~NoValidVersion(Meta(MetaCall(o).result.data))
                 /\ Meta(MetaCall(o).result.data).hasTimes )
               => /\ ops[o].pc = "returned"
                  /\ ops[o].result.downloads.week = CountOf(WeekCall(o))
                  /\ ops[o].result.downloads.month = CountOf(MonthCall(o))

\* C14 witness: a scan succeeded although its last-week fetch failed.
C14_Witness ==
    \E o \in DOMAIN ops :
        /\ Fetched(o) /\ IncludeDownloads(ops[o].options)
        /\ ops[o].pc = "returned"
        /\ WeekCall(o).pc = "thrown"
        /\ MonthCall(o).pc = "returned"
        /\ ops[o].result.downloads.week = 0
        /\ ops[o].result.downloads.month > 0

\* C15: a scan that missed the cache has made one client.get call, for the
\* metadata, when includeDownloads is false, and three, for the metadata, the last
\* week and the last month, otherwise; the calls exist from the step in which
\* the scan starts, so all are in flight before any of them is answered.
C15_ScanFetches ==
    \A o \in DOMAIN ops :
        ops[o].kind = "scan" /\ ~ops[o].hit =>
            /\ \A g \in DOMAIN ops[o].gets : ops[o].gets[g] \in DOMAIN calls
            /\ MetaCall(o).url = Url("meta", ops[o].arg)
            /\ IF IncludeDownloads(ops[o].options)
               THEN /\ Len(ops[o].gets) = 3
                    /\ WeekCall(o).url = Url("week", ops[o].arg)
                    /\ MonthCall(o).url = Url("month", ops[o].arg)
               ELSE Len(ops[o].gets) = 1

\* C15 witness: the three fetches of a scan are in flight and none is answered.
C15_Witness ==
    \E o \in DOMAIN ops :
        /\ ops[o].kind = "scan" /\ ops[o].pc = "await"
        /\ Len(ops[o].gets) = 3
        /\ MetaCall(o).pc = "fetch"
        /\ WeekCall(o).pc = "fetch"
        /\ MonthCall(o).pc = "fetch"

\* C16 as stated: a scan whose metadata has no dist-tags.latest, or no versions
\* entry for it, fails with the error of a package that is not found.  This does
\* not hold: it fails with 'Scan failed: Package has no valid versions'.
C16_NoLatestIsNotFound ==
    \A o \in DOMAIN ops :
        ( /\ Fetched(o)
          /\ MetaCall(o).pc = "returned"
          /\ NoValidVersion(Meta(MetaCall(o).result.data)) )
        => ops[o].pc = "thrown" /\ ops[o].error = NotFound(ops[o].arg)

\* C16 witness: such a scan has failed, with the generic scan failure.
C16_Witness ==
    \E o \in DOMAIN ops :
        /\ Fetched(o)
        /\ MetaCall(o).pc = "returned"
        /\ NoValidVersion(Meta(MetaCall(o).result.data))
        /\ ops[o].pc = "thrown"
        /\ ops[o].error.message = <<"Scan failed: ", "Package has no valid versions">>

\* C17: a scan whose metadata fetch failed with HTTP 404 fails with "Package
\* '<name>' not found in NPM registry"; a scan that fails for any other reason
\* fails with 'Scan failed: ' followed by the message of the error that made it
\* fail.
C17_ScanErrors ==
    \A o \in DOMAIN ops :
        Fetched(o) /\ ops[o].pc = "thrown" =>
            IF MetaCall(o).pc = "thrown"
            THEN IF MetaCall(o).lastError = HttpError(404, StatusText(404))
                 THEN ops[o].error = NotFound(ops[o].arg)
                 ELSE ops[o].error.message = <<"Scan failed: ">> \o MetaCall(o).lastError.message
            ELSE /\ MetaCall(o).pc = "returned"
                 /\ ops[o].error.message \in
                        { <<"Scan failed: ">> \o NoValidVersions.message,
                          <<"Scan failed: ">> \o InvalidTime.message }

\* C17 witness: a scan whose metadata fetch got a 404 failed with the not-found
\* message.
C17_Witness ==
    \E o \in DOMAIN ops :
        /\ Fetched(o) /\ ops[o].pc = "thrown"
        /\ MetaCall(o).pc = "thrown"
        /\ MetaCall(o).lastError = HttpError(404, StatusText(404))
        /\ ops[o].error = NotFound(ops[o].arg)

\* The entries of the registry's packages whose version is not a prerelease, in
\* the registry's order.
RECURSIVE KeepStable(_)
KeepStable(pkgs) ==
    IF pkgs = <<>> THEN <<>>
    ELSE LET v == ParseVersion(Head(pkgs).version) IN
         (IF v.parsed /\ v.prerelease # <<>> THEN <<>> ELSE <<Entry(Head(pkgs))>>)
             \o KeepStable(Tail(pkgs))

\* A search called with includeUnstable false or left out
StableSearch(o) ==
    ops[o].kind = "search" /\ ~IncludeUnstable(ops[o].options) /\ ops[o].pc = "returned"

\* C18: search with includeUnstable=false returns exactly the registry's results,
\* in the registry's order, whose version does not parse as a prerelease: no entry
\* has versionInfo.isStable false, entries with unparseable versions are kept, and
\* a result served from the cache is such a list too.
C18_StableOnly ==
    \A o \in DOMAIN ops :
        StableSearch(o) =>
            /\ \A i \in 1 .. Len(ops[o].result.items) :
                    LET info == ops[o].result.items[i].versionInfo IN
                    info.parsed => info.isStable
            /\ IF ops[o].hit
               THEN \E b \in SearchBodies : ops[o].result.items = KeepStable(Objects(b))
               ELSE ops[o].result.items =
                        KeepStable(Objects(calls[ops[o].gets[1]].result.data))

\* C18 witness: a search served from the cache returned the registry's stable
\* entry and its entry with an unparseable version, without the prerelease
\* between them.
C18_Witness ==
    \E o \in DOMAIN ops :
        /\ StableSearch(o)
        /\ ops[o].hit
        /\ ops[o].result.items = <<Entry(Package("a", V100)), Entry(Package("c", Vbad))>>

\* A search that went to the registry and has ended
Searched(o) == ops[o].kind = "search" /\ ops[o].pc # "await" /\ ~ops[o].hit

\* C19: a search whose fetch fails (the client having exhausted its retries)
\* fails with 'Search failed: ' followed by the message of the client's error,
\* and the scanner has called client.get once only.
C19_SearchFails ==
    \A o \in DOMAIN ops :
        Searched(o) =>
            /\ Len(ops[o].gets) = 1
            /\ calls[ops[o].gets[1]].pc = "thrown" =>
                    /\ ops[o].pc = "thrown"
                    /\ ops[o].error.message =
                          <<"Search failed: ">> \o calls[ops[o].gets[1]].lastError.message

\* C19 witness: a search failed after its one fetch was rejected by the network.
C19_Witness ==
    \E o \in DOMAIN ops :
        /\ Searched(o)
        /\ ops[o].pc = "thrown"
        /\ Len(ops[o].gets) = 1
        /\ calls[ops[o].gets[1]].lastError = NetworkError
        /\ ops[o].error.message = <<"Search failed: ">> \o NetworkError.message

\* What a search or scan called with the arguments of a cache key returns when
\* it succeeds: the whole list of entries, or the whole report.
Complete(key, value) ==
    IF key[1] = "search"
    THEN /\ value.kind = "list"
         /\ \E b \in SearchBodies :
                value.items =
                    IF key[3] = "{includeUnstable:true}"
                    THEN [i \in 1 .. Len(Objects(b)) |-> Entry(Objects(b)[i])]
                    ELSE KeepStable(Objects(b))
    ELSE /\ value.kind = "report"
         /\ \E b \in AllMetaBodies, w, m \in {0} \cup {Downloads(d) : d \in DownloadBodies} :
                /\ ~NoValidVersion(Meta(b))
                /\ Meta(b).hasTimes
                /\ key[3] = "{includeDownloads:false}" => w = 0 /\ m = 0
                /\ value = Report(Meta(b), w, m)

\* C20: however concurrently running search and scan calls interleave, every
\* entry of the cache is under the key of a call's arguments and holds the
\* complete result of a successful call with those arguments, the one stored
\* last under that key; a call served from the cache has got such a result.
C20_CompleteEntries ==
    /\ \A k \in DOMAIN cache :
            /\ k \in Keys
            /\ Complete(k, cache[k].data)
            /\ sets[k] # <<>> /\ cache[k].data = LastSet(k).data
    /\ \A o \in DOMAIN ops :
            ops[o].hit => ops[o].pc = "returned" /\ Complete(ops[o].key, ops[o].result)

\* C20 witness: a call is served from the cache while a call that started
\* before it is still awaiting its answer.
C20_Witness ==
    \E o1, o2 \in DOMAIN ops :
        /\ o2 < o1
        /\ ops[o1].hit /\ ops[o1].key \in DOMAIN cache
        /\ ops[o2].pc = "await" /\ ops[o2].gets # <<>>

(***************************************************************************)
(* Claims about the timer of HttpClient.get, checked under SpecHttp.       *)
(***************************************************************************)
\* C25: get arms one timer per call, and the timer stays armed during the backoff
\* wait that follows a failed first attempt; if it fires during that wait, the
\* second attempt is rejected with an abort error at the instant it starts and
\* get throws that error then, whatever retries remain.
C25_TimerDuringBackoff ==
    \A i \in Calls :
        LET c == calls[i] IN
        /\ c.pc = "backoff" /\ c.attempt = 0 /\ ~c.aborted => c.timerArmed
        /\ c.attempt >= 1 => ~c.timerArmed
        /\ c.aborted /\ Len(c.log) >= 2 =>
                /\ Len(c.log) = 2
                /\ c.log[1].outcome # AbortError
                /\ c.timerDue >= c.log[1].end /\ c.timerDue <= c.log[2].start
                /\ \/ c.pc = "fetch" /\ c.log[2].start = now
                   \/ /\ c.pc = "thrown"
                      /\ c.lastError = AbortError
                      /\ c.log[2].outcome = AbortError
                      /\ c.log[2].end = c.log[2].start
                      /\ c.doneAt = c.log[2].start

\* C25 witness: with two retries, the timer fired during the first backoff wait
\* and get threw the abort error of the second attempt, one retry unused.
C25_Witness ==
    \E i \in Calls :
        LET c == calls[i] IN
        /\ retries = 2
        /\ c.pc = "thrown"
        /\ Len(c.log) = 2
        /\ c.log[1].outcome = NetworkError
        /\ c.timerDue > c.log[1].end /\ c.timerDue < c.log[2].start
        /\ c.lastError = AbortError

\* C30: when get, called on a client with retries >= 0, has returned or thrown,
\* its timer is not pending: it has fired or it has been cleared, on the success
\* path, on the exhausted-retries path and on the abort path alike.
C30_TimerCleared ==
    \A i \in Calls :
        retries >= 0 /\ calls[i].pc \in {"returned", "thrown"} => ~calls[i].timerArmed

\* C30 witness: get threw the network error of its only attempt before the timer
\* was due, and the timer is not pending.
C30_Witness ==
    \E i \in Calls :
        LET c == calls[i] IN
        /\ retries = 0
        /\ c.pc = "thrown"
        /\ c.lastError = NetworkError
        /\ c.doneAt < c.timerDue
        /\ ~c.timerArmed

(***************************************************************************)
(* Claims about utils.calculateHealth, checked under SpecHealth.           *)
(***************************************************************************)
\* calculateHealth has returned for a package neither deprecated nor vulnerable
Scored == util.pc = "returned" /\ ~util.isDeprecated /\ ~util.hasVulnerabilities

C22_ShortCircuits ==
    util.pc = "returned" =>
        /\ util.isDeprecated =>
                util.result = [status |-> "deprecated", score |-> 0]
        /\ ~util.isDeprecated /\ util.hasVulnerabilities =>
                util.result = [status |-> "vulnerable", score |-> 20]

\* C22 witness: a package both deprecated and vulnerable, recent and much
\* downloaded, is reported deprecated.
C22_Witness ==
    /\ util.pc = "returned"
    /\ util.isDeprecated /\ util.hasVulnerabilities
    /\ util.daysSinceUpdate = 0 /\ util.downloads >= 1000
    /\ util.result = [status |-> "deprecated", score |-> 0]

\* The penalties and the status of a score, as the health levels are documented
AgePenalty(days) ==
    CASE days > 1095 -> 60
      [] days > 730 /\ days <= 1095 -> 40
      [] days > 365 /\ days <= 730 -> 20
      [] days <= 365 -> 0

DownloadPenalty(n) ==
    CASE n < 10 -> 30
      [] n >= 10 /\ n < 100 -> 15
      [] n >= 100 /\ n < 1000 -> 5
      [] n >= 1000 -> 0

HealthLevel(score) ==
    CASE score >= 80 -> "excellent"
      [] score \in 60 .. 79 -> "good"
      [] score \in 40 .. 59 -> "fair"
      [] score \in 20 .. 39 -> "poor"
      [] score < 20 -> "critical"

\* C23: for a package neither deprecated nor vulnerable, calculateHealth returns
\* the score 100 - agePenalty - downloadPenalty, the age penalty being one of
\* 60/40/20/0 for days > 1095, > 730, > 365 or less and the download penalty one
\* of 30/15/5/0 for downloads < 10, < 100, < 1000 or more, and the status is
\* excellent, good, fair, poor or critical exactly when the score is at least 80,
\* in 60..79, in 40..59, in 20..39 or below 20.
C23_ScoreAndStatus ==
    Scored =>
        /\ util.result.score =
              100 - AgePenalty(util.daysSinceUpdate) - DownloadPenalty(util.downloads)
        /\ util.result.status = HealthLevel(util.result.score)

\* C23 witness: the oldest and least downloaded package scores 10 and is critical.
C23_Witness ==
    /\ Scored
    /\ util.daysSinceUpdate > 1095 /\ util.downloads < 10
    /\ util.result = [status |-> "critical", score |-> 10]

(***************************************************************************)
(* Claims about utils.parseVersion, checked under SpecVersion.             *)
(***************************************************************************)
\* A non-negative integer, and a dot-separated sequence of identifiers made of
\* letters, digits and hyphens
Numeric(s) == s # <<>> /\ \A i \in 1 .. Len(s) : IsDigit(s[i])
Identifier(s) == s # <<>> /\ \A i \in 1 .. Len(s) : IsIdChar(s[i])

RECURSIVE Identifiers(_)
Identifiers(s) ==
    \/ Identifier(s)
    \/ \E i \in 1 .. Len(s) :
            /\ s[i] = "."
            /\ Identifier(SubSeq(s, 1, i - 1))
            /\ Identifiers(SubSeq(s, i + 1, Len(s)))

\* MAJOR.MINOR.PATCH
Core(s) ==
    \E i, j \in 1 .. Len(s) :
        /\ i < j /\ s[i] = "." /\ s[j] = "."
        /\ Numeric(SubSeq(s, 1, i - 1))
        /\ Numeric(SubSeq(s, i + 1, j - 1))
        /\ Numeric(SubSeq(s, j + 1, Len(s)))

\* v is MAJOR.MINOR.PATCH[-PRERELEASE][+BUILD]: the core ends at position e and
\* the prerelease tag, if there is one, at position p
Semver(v, e, p) ==
    /\ e <= p
    /\ Core(SubSeq(v, 1, e))
    /\ p = e \/ (v[e + 1] = "-" /\ Identifiers(SubSeq(v, e + 2, p)))
    /\ p = Len(v) \/ (v[p + 1] = "+" /\ Identifiers(SubSeq(v, p + 2, Len(v))))

\* C24: parseVersion of a string that is not of the form
\* MAJOR.MINOR.PATCH[-PRERELEASE][+BUILD] returns null; of a string of that form
\* it returns a record with the prerelease tag and the build metadata of the
\* string, in which isStable is true exactly when there is no prerelease tag, so
\* that build metadata alone leaves isStable true.
C24_ParseVersion ==
    util.pc = "returned" =>
        LET v == util.version
            r == util.result
            cuts == {c \in (0 .. Len(v)) \X (0 .. Len(v)) : Semver(v, c[1], c[2])} IN
        IF cuts # {}
        THEN /\ r.parsed
             /\ \E c \in cuts :
                    /\ r.prerelease = SubSeq(v, c[1] + 2, c[2])
                    /\ r.build = SubSeq(v, c[2] + 2, Len(v))
             /\ r.isStable <=> r.prerelease = <<>>
        ELSE r = NoVersion

\* C24 witness: 1.1.1+b is parsed as stable, with build metadata and no
\* prerelease tag.
C24_Witness ==
    /\ util.pc = "returned"
    /\ util.version = <<"1", ".", "1", ".", "1", "+", "b">>
    /\ util.result.parsed
    /\ util.result.prerelease = <<>>
    /\ util.result.build = <<"b">>
    /\ util.result.isStable

\* C29: a scan of a package that is not deprecated, made with includeDownloads
\* false or whose fetch of the last week's downloads failed, scores the package
\* with 0 downloads: the healthScore it reports is 70 minus the age penalty, and
\* so at most 70.
C29_NoDownloadsScore ==
    \A o \in DOMAIN ops :
        ( /\ Fetched(o)
          /\ ops[o].pc = "returned"
          /\ ~ops[o].result.deprecated
          /\ \/ ~IncludeDownloads(ops[o].options)
             \/ WeekCall(o).pc = "thrown" )
        => /\ ops[o].result.downloads.week = 0
           /\ ops[o].result.healthScore = 70 - AgePenalty(ops[o].result.daysSinceUpdate)
           /\ ops[o].result.healthScore <= 70

\* C29 witness: the fetch of the last week's downloads failed, that of the last
\* month's did not, and a package last published 800 days ago scores 30.
C29_Witness ==
    \E o \in DOMAIN ops :
        /\ Fetched(o)
        /\ ops[o].pc = "returned"
        /\ IncludeDownloads(ops[o].options)
        /\ WeekCall(o).pc = "thrown"
        /\ MonthCall(o).pc = "returned"
        /\ ops[o].result.daysSinceUpdate = 800
        /\ ops[o].result.healthScore = 30

(***************************************************************************)
(* Claims about failed and overlapping calls, checked under SpecConcurrent.*)
(***************************************************************************)
\* The step in which a search or scan fails leaves the cache as it was.
FailureLeavesCache ==
    \A o \in DOMAIN ops :
        o \in DOMAIN ops' /\ ops[o].pc = "await" /\ ops'[o].pc = "thrown" => cache' = cache

\* C26 as stated: a search or scan that fails writes nothing to the cache, so the
\* next call with the same arguments issues HTTP requests again.  The second part
\* does not hold when a call with the same arguments that overlapped the failed
\* one has stored its result: the next call is served from the cache.
C26_RequestsAfterFailure ==
    /\ [][FailureLeavesCache]_vars
    /\ [](\A o \in DOMAIN ops : ops[o].afterFail => ~ops[o].hit /\ ops[o].gets # <<>>)

\* C26, amended: a search or scan that fails writes nothing to the cache, so the
\* next call with the same arguments issues HTTP requests again unless a call
\* with the same arguments has stored its result in the meantime.
C26_FailureNotCached ==
    /\ [][FailureLeavesCache]_vars
    /\ [](\A o \in DOMAIN ops :
            ops[o].afterFail /\ ops[o].stored = <<>> => ~ops[o].hit /\ ops[o].gets # <<>>)

\* C26 witness: a call made after a call with the same arguments failed, with
\* nothing stored for them, missed the cache and issued requests.
C26_Witness ==
    \E o \in DOMAIN ops :
        /\ ops[o].afterFail
        /\ ops[o].stored = <<>>
        /\ ~ops[o].hit
        /\ ops[o].gets # <<>>
        /\ ops[o].key \notin DOMAIN cache

\* The client.get calls of a search or scan
Gets(op) == {op.gets[n] : n \in DOMAIN op.gets}

\* A scan starts (as o2) while a scan with the same name and options (o1) is
\* under way.
Overlap(o1, o2) ==
    /\ o1 < o2
    /\ o2 \notin DOMAIN ops
    /\ ops'[o2].kind = "scan"
    /\ ops'[o1].key = ops'[o2].key
    /\ ops'[o1].pc = "await"

\* Both have missed the cache and each has made client.get calls of its own.
OwnRequests(o1, o2) ==
    /\ ~ops'[o1].hit /\ ~ops'[o2].hit
    /\ Gets(ops'[o1]) # {} /\ Gets(ops'[o2]) # {}
    /\ Gets(ops'[o1]) \cap Gets(ops'[o2]) = {}

\* The step in which a scan returns leaves its result in the cache, whatever was
\* there.
ReturnWrites ==
    \A o \in DOMAIN ops :
        ( /\ o \in DOMAIN ops'
          /\ ops[o].kind = "scan"
          /\ ops[o].pc = "await"
          /\ ops'[o].pc = "returned" )
        => /\ ops[o].key \in DOMAIN cache'
           /\ cache'[ops[o].key].data = ops'[o].result

\* C27 as stated: calls are not coalesced; of two scans with the same name and
\* options started before either completes, each misses the cache and issues its
\* own requests, and both write the cache, the entry left being the result of
\* the one that completed last.  This does not hold when a third scan with the
\* same arguments has stored its result while the first was under way: the
\* second is then served from the cache.
C27_OverlapAlwaysMisses ==
    [][(\A o1, o2 \in DOMAIN ops' : Overlap(o1, o2) => OwnRequests(o1, o2))
          /\ ReturnWrites]_vars

\* C27, amended: calls are not coalesced.  A scan started while a scan with the
\* same name and options is under way (as by compare with a name given twice)
\* and while the cache holds no entry for them misses the cache and issues its
\* own requests, and each of the two that returns writes the cache, so that the
\* entry left is the result of the one that returned last.
C27_NotCoalesced ==
    [][(\A o1, o2 \in DOMAIN ops' :
            Overlap(o1, o2) /\ ops'[o2].key \notin DOMAIN cache => OwnRequests(o1, o2))
          /\ ReturnWrites]_vars

\* C27 witness: compare was called with the same name twice, both scans made
\* their own request and returned different reports, the second write replaced
\* the first, and the cache holds the report written last.
C27_Witness ==
    /\ Len(cmp.names) = 2
    /\ cmp.names[1] = cmp.names[2]
    /\ LET a == ScanOf(1)
           b == ScanOf(2)
           k == a.key IN
       /\ a.pc = "returned" /\ b.pc = "returned"
       /\ ~a.hit /\ ~b.hit
       /\ Gets(a) \cap Gets(b) = {}
       /\ a.result # b.result
       /\ Len(sets[k]) = 2
       /\ sets[k][2].existed
       /\ {sets[k][1].data, sets[k][2].data} = {a.result, b.result}
       /\ cache[k].data = sets[k][2].data
====
